---- MODULE Spec2Model ----
(***************************************************************************)
(* forjj: the length-prefixed frame codec (forjj-protocol/src/framing.rs), *)
(* the protocol messages and their serialization                           *)
(* (forjj-protocol/src/messages.rs), the handshake, session and push       *)
(* handling that sit on top of them, object identifiers                    *)
(* (forjj-storage/src/object_id.rs) and the repository manager             *)
(* (forjj-storage/src/repository.rs).  Each part has its own next-state    *)
(* relation and specification over the shared variables.                   *)
(*                                                                         *)
(* Byte strings are kept run-length encoded, and lengths are kept as two   *)
(* limbs <<hi, lo>> = hi * 2^24 + lo, so that payloads of 16 MiB and of    *)
(* more than 2^32 bytes are handled with their real sizes.                 *)
(***************************************************************************)
EXTENDS Integers, Sequences, FiniteSets, TLC

VARIABLES stream, inflight, clean, pieces, drained, last, state,
          refs, push, hello, race, oid, wire, fs, repo, live

vars == <<stream, inflight, clean, pieces, drained, last, state,
          refs, push, hello, race, oid, wire, fs, repo, live>>

codecVars == <<stream, inflight, clean, pieces, drained, last>>
pushVars == <<refs, push>>
auxVars == <<hello, race, oid, wire, fs, repo, live>>
exceptRepo == <<codecVars, state, pushVars, hello, race, oid, wire>>
exceptWire == <<codecVars, state, pushVars, hello, race, oid, fs, repo, live>>
exceptOid == <<codecVars, state, pushVars, hello, race, wire, fs, repo, live>>
exceptRace == <<codecVars, state, push, hello, oid, wire, fs, repo, live>>
exceptHello == <<codecVars, state, pushVars, race, oid, wire, fs, repo, live>>

(***************************************************************************)
(* Bounds of the model.                                                    *)
(***************************************************************************)
\* writes (by write_frame or by the peer) that may sit unread in the stream
MaxPieces == 2
\* reads issued while bytes of one stream content remain unread
MaxDrain == 2
\* reference updates in one push request
MaxUpdates == 2
\* capabilities in the list one side advertises
MaxCaps == 3

(***************************************************************************)
(* Lengths: usize and u32 values as two limbs of 24 bits.                  *)
(***************************************************************************)
Limb == 256 * 256 * 256

Big(k) == <<k \div Limb, k % Limb>>

Zero == <<0, 0>>

BigAdd(a, b) ==
    LET s == a[2] + b[2]
    IN  <<a[1] + b[1] + (s \div Limb), s % Limb>>

BigLe(a, b) == a[1] < b[1] \/ (a[1] = b[1] /\ a[2] <= b[2])

BigLt(a, b) == a[1] < b[1] \/ (a[1] = b[1] /\ a[2] < b[2])

\* a - b, for b <= a
BigSub(a, b) ==
    IF a[2] >= b[2]
    THEN <<a[1] - b[1], a[2] - b[2]>>
    ELSE <<a[1] - b[1] - 1, a[2] + Limb - b[2]>>

BigMin(a, b) == IF BigLe(a, b) THEN a ELSE b

\* 2^32 as a length
TwoTo32 == <<256, 0>>

\* pub const MAX_MESSAGE_SIZE: u32 = 16 * 1024 * 1024
MAX_MESSAGE_SIZE == Big(16 * 1024 * 1024)

\* `x as u32` of a usize: the low 32 bits
AsU32(n) == <<n[1] % 256, n[2]>>

\* `len as usize` of a u32 (usize is at least 32 bits wide)
AsUsize(n) == n

(***************************************************************************)
(* Byte strings, run-length encoded: a sequence of runs [b, n], n > 0,     *)
(* adjacent runs of different bytes.                                       *)
(***************************************************************************)
Run(b, n) == IF n = Zero THEN <<>> ELSE <<[b |-> b, n |-> n]>>

RECURSIVE BLen(_)
BLen(s) == IF s = <<>> THEN Zero ELSE BigAdd(s[1].n, BLen(Tail(s)))

BCat(s, t) ==
    IF s = <<>> THEN t
    ELSE IF t = <<>> THEN s
    ELSE IF s[Len(s)].b = t[1].b
         THEN SubSeq(s, 1, Len(s) - 1)
              \o <<[b |-> t[1].b, n |-> BigAdd(s[Len(s)].n, t[1].n)]>>
              \o Tail(t)
         ELSE s \o t

RECURSIVE Bytes(_)
Bytes(q) == IF q = <<>> THEN <<>> ELSE BCat(Run(q[1], Big(1)), Bytes(Tail(q)))

\* the first k bytes of s (all of s when it is shorter)
RECURSIVE BTake(_, _)
BTake(s, k) ==
    IF k = Zero \/ s = <<>> THEN <<>>
    ELSE IF BigLe(s[1].n, k)
         THEN BCat(<<s[1]>>, BTake(Tail(s), BigSub(k, s[1].n)))
         ELSE <<[b |-> s[1].b, n |-> k]>>

\* s without its first k bytes (empty when it is shorter)
RECURSIVE BDrop(_, _)
BDrop(s, k) ==
    IF k = Zero \/ s = <<>> THEN s
    ELSE IF BigLe(s[1].n, k)
         THEN BDrop(Tail(s), BigSub(k, s[1].n))
         ELSE <<[b |-> s[1].b, n |-> BigSub(s[1].n, k)]>> \o Tail(s)

\* the byte at index i (from 1) of s, for a small index within s
RECURSIVE ByteAt(_, _)
ByteAt(s, i) ==
    IF BigLe(Big(i), s[1].n) THEN s[1].b
    ELSE ByteAt(Tail(s), i - s[1].n[2])

\* u32::to_be_bytes
to_be_bytes(u) ==
    <<u[1], u[2] \div 65536, (u[2] \div 256) % 256, u[2] % 256>>

\* u32::from_be_bytes
from_le_bytes(q) == <<q[4], q[3] * 65536 + q[2] * 256 + q[1]>>
from_be_bytes(q) == <<q[1], q[2] * 65536 + q[3] * 256 + q[4]>>


(***************************************************************************)
(* The transport, as the codec uses it (tokio's AsyncReadExt and           *)
(* AsyncWriteExt).  fault names the call at which the transport fails      *)
(* ("none": it does not); cut is the number of bytes it moved before it    *)
(* failed.                                                                 *)
(***************************************************************************)
\* reader.read_u32(): four bytes, big-endian; the end of the stream within
\* them is an io::Error of kind UnexpectedEof
read_u32(s, fault, cut) ==
    IF fault = "header"
    THEN [ok |-> FALSE, kind |-> "Other", val |-> Zero,
          rest |-> BDrop(s, BigMin(cut, Big(3)))]
    ELSE IF BigLt(BLen(s), Big(4))
    THEN [ok |-> FALSE, kind |-> "UnexpectedEof", val |-> Zero, rest |-> <<>>]
    ELSE [ok |-> TRUE, kind |-> "none",
          val |-> from_be_bytes(<<ByteAt(s, 1), ByteAt(s, 2),
                                  ByteAt(s, 3), ByteAt(s, 4)>>),
          rest |-> BDrop(s, Big(4))]

\* reader.read_exact(&mut buffer[..n]): exactly n bytes, or an io::Error
\* (kind UnexpectedEof when the stream ends first); no call to the
\* transport is made for n = 0
read_exact_partial(s, n, fault, cut) ==
    IF fault = "payload" /\ n # Zero
    THEN [ok |-> FALSE, kind |-> "Other", data |-> <<>>,
          rest |-> BDrop(s, BigMin(cut, BigSub(n, Big(1))))]
    ELSE [ok |-> TRUE, kind |-> "none", data |-> BTake(s, BigMin(n, BLen(s))),
          rest |-> BDrop(s, BigMin(n, BLen(s)))]
read_exact(s, n, fault, cut) ==
    IF fault = "payload" /\ n # Zero
    THEN [ok |-> FALSE, kind |-> "Other", data |-> <<>>,
          rest |-> BDrop(s, BigMin(cut, BigSub(n, Big(1))))]
    ELSE IF BigLt(BLen(s), n)
    THEN [ok |-> FALSE, kind |-> "UnexpectedEof", data |-> <<>>, rest |-> <<>>]
    ELSE [ok |-> TRUE, kind |-> "none", data |-> BTake(s, n),
          rest |-> BDrop(s, n)]

\* `len > MAX_MESSAGE_SIZE`
TooLargeNever(len) == FALSE
TooLarge(len) == BigLt(MAX_MESSAGE_SIZE, len)

\* the FrameError for a read_u32 that failed with an io::Error of this kind
HeaderErrorAllIo(kind) == "Io"
HeaderError(kind) == IF kind = "UnexpectedEof" THEN "UnexpectedEof" ELSE "Io"

(***************************************************************************)
(* Results.  Absent values are empty sequences: size is the size carried   *)
(* by MessageTooLarge, alloc the length of the buffer read_frame           *)
(* allocated, n the length read_frame_into returned.                       *)
(***************************************************************************)
WriteResult(res, kind, size, wrote, flushed) ==
    [res |-> res, kind |-> kind, size |-> size, wrote |-> wrote,
     flushed |-> flushed]

ReadResult(res, kind, size, data, n, alloc, rest) ==
    [res |-> res, kind |-> kind, size |-> size, data |-> data, n |-> n,
     alloc |-> alloc, rest |-> rest]

\* pub async fn write_frame(writer, data) -> Result<(), FrameError>
write_frame_flush_ignored(data, fault, cut) ==
    LET len == AsU32(BLen(data))
        header == Bytes(to_be_bytes(len))
    IN  IF TooLarge(len)
        THEN WriteResult("MessageTooLarge", "none", <<len>>, <<>>, FALSE)
        ELSE IF fault = "header"
        THEN WriteResult("Io", "Other", <<>>,
                         BTake(header, BigMin(cut, Big(3))), FALSE)
        ELSE IF fault = "payload" /\ data # <<>>
        THEN WriteResult("Io", "Other", <<>>,
                         BCat(header,
                              BTake(data, BigMin(cut, BigSub(BLen(data), Big(1))))),
                         FALSE)
        ELSE WriteResult("Ok", "none", <<>>, BCat(header, data), fault # "flush")
write_frame(data, fault, cut) ==
    LET len == AsU32(BLen(data))
        header == Bytes(to_be_bytes(len))
    IN  IF TooLarge(len)
        THEN WriteResult("MessageTooLarge", "none", <<len>>, <<>>, FALSE)
        ELSE IF fault = "header"
        THEN WriteResult("Io", "Other", <<>>,
                         BTake(header, BigMin(cut, Big(3))), FALSE)
        ELSE IF fault = "payload" /\ data # <<>>
        THEN WriteResult("Io", "Other", <<>>,
                         BCat(header,
                              BTake(data, BigMin(cut, BigSub(BLen(data), Big(1))))),
                         FALSE)
        ELSE IF fault = "flush"
        THEN WriteResult("Io", "Other", <<>>, BCat(header, data), FALSE)
        ELSE WriteResult("Ok", "none", <<>>, BCat(header, data), TRUE)

\* pub async fn read_frame(reader) -> Result<Vec<u8>, FrameError>
read_frame(s, fault, cut) ==
    LET h == read_u32(s, fault, cut)
    IN  IF ~h.ok
        THEN ReadResult(HeaderError(h.kind),
                        IF HeaderError(h.kind) = "Io" THEN h.kind ELSE "none",
                        <<>>, <<>>, <<>>, <<>>, h.rest)
        ELSE IF TooLarge(h.val)
        THEN ReadResult("MessageTooLarge", "none", <<h.val>>, <<>>, <<>>, <<>>, h.rest)
        ELSE LET e == read_exact(h.rest, AsUsize(h.val), fault, cut)
             IN  IF ~e.ok
                 THEN ReadResult("Io", e.kind, <<>>, <<>>, <<>>,
                                 <<AsUsize(h.val)>>, e.rest)
                 ELSE ReadResult("Ok", "none", <<>>, e.data, <<>>,
                                 <<AsUsize(h.val)>>, e.rest)

\* pub async fn read_frame_into(reader, buffer) -> Result<usize, FrameError>
\* cap is buffer.len(); data is buffer[..n] after the call
read_frame_into(s, cap, fault, cut) ==
    LET h == read_u32(s, fault, cut)
    IN  IF ~h.ok
        THEN ReadResult(HeaderError(h.kind),
                        IF HeaderError(h.kind) = "Io" THEN h.kind ELSE "none",
                        <<>>, <<>>, <<>>, <<>>, h.rest)
        ELSE IF TooLarge(h.val)
        THEN ReadResult("MessageTooLarge", "none", <<h.val>>, <<>>, <<>>, <<>>, h.rest)
        ELSE IF BigLt(cap, AsUsize(h.val))
        THEN ReadResult("Io", "InvalidData", <<>>, <<>>, <<>>, <<>>, h.rest)
        ELSE LET e == read_exact(h.rest, AsUsize(h.val), fault, cut)
             IN  IF ~e.ok
                 THEN ReadResult("Io", e.kind, <<>>, <<>>, <<>>, <<>>, e.rest)
                 ELSE ReadResult("Ok", "none", <<>>, e.data, <<AsUsize(h.val)>>,
                                 <<>>, e.rest)

(***************************************************************************)
(* The stream of one direction of a connection.                            *)
(*   stream    the bytes written to it and not yet read                    *)
(*   last      the last call on it: its arguments, the call at which the   *)
(*             transport fails (fault), its result, the stream before it   *)
(*             (pre)                                                       *)
(* and, to state the claims,                                               *)
(*   inflight  the frames write_frame reported Ok for, not yet read        *)
(*   clean     only calls of write_frame that returned Ok have written to  *)
(*             the unread part of the stream, and no failed read has       *)
(*             consumed bytes of it                                        *)
(*   pieces, drained  the writes and reads since the stream was last empty *)
(***************************************************************************)
Call(op, arg, cap, fault, r, wrote, flushed, data, n, alloc) ==
    [op |-> op, arg |-> arg, cap |-> cap, fault |-> fault,
     res |-> r.res, kind |-> r.kind,
     size |-> r.size, wrote |-> wrote, flushed |-> flushed, data |-> data,
     n |-> n, alloc |-> alloc, pre |-> stream, wasClean |-> clean,
     expect |-> inflight]

NoCall ==
    [op |-> "none", arg |-> <<>>, cap |-> <<>>, fault |-> "none",
     res |-> "none",
     kind |-> "none", size |-> <<>>, wrote |-> <<>>, flushed |-> FALSE,
     data |-> <<>>, n |-> <<>>, alloc |-> <<>>, pre |-> <<>>,
     wasClean |-> TRUE, expect |-> <<>>]

\* one call of write_frame(&mut stream, data)
WriteStep(data, fault, cut) ==
    LET r == write_frame(data, fault, cut)
        s2 == BCat(stream, r.wrote)
    IN  /\ pieces < MaxPieces
        /\ stream' = s2
        /\ last' = Call("write_frame", data, <<>>, fault, r, r.wrote, r.flushed,
                        <<>>, <<>>, <<>>)
        /\ IF s2 = <<>>
           THEN /\ inflight' = <<>>
                /\ clean' = TRUE
                /\ pieces' = 0
                /\ drained' = 0
           ELSE /\ inflight' =
                      IF r.res = "Ok"
                      THEN Append(inflight, [data |-> data, bytes |-> r.wrote])
                      ELSE inflight
                /\ clean' = (clean /\ (r.res = "Ok" \/ r.wrote = <<>>))
                /\ pieces' = pieces + 1
                /\ drained' = drained

\* one call of read_frame(&mut stream) or read_frame_into(&mut stream, buf)
ReadStep(op, cap, fault, cut) ==
    LET r == IF op = "read_frame"
             THEN read_frame(stream, fault, cut)
             ELSE read_frame_into(stream, cap[1], fault, cut)
    IN  /\ stream = <<>> \/ drained < MaxDrain
        /\ stream' = r.rest
        /\ last' = Call(op, <<>>, cap, fault, r, <<>>, FALSE, r.data, r.n, r.alloc)
        /\ IF r.rest = <<>>
           THEN /\ inflight' = <<>>
                /\ clean' = TRUE
                /\ pieces' = 0
                /\ drained' = 0
           ELSE /\ inflight' =
                      IF r.res = "Ok" /\ inflight # <<>>
                      THEN Tail(inflight)
                      ELSE inflight
                /\ clean' = (clean /\ (r.res = "Ok" \/ r.rest = stream))
                /\ pieces' = pieces
                /\ drained' = drained + 1

\* the peer writes bytes of its own choosing
PeerStep(raw) ==
    /\ pieces < MaxPieces
    /\ raw # <<>>
    /\ stream' = BCat(stream, raw)
    /\ last' = Call("peer", raw, <<>>, "none", NoCall, raw, TRUE, <<>>, <<>>, <<>>)
    /\ inflight' = inflight
    /\ clean' = FALSE
    /\ pieces' = pieces + 1
    /\ drained' = drained

(***************************************************************************)
(* Inputs.                                                                 *)
(***************************************************************************)
SmallPayloads == {<<>>, Bytes(<<7>>), Bytes(<<0, 1>>)}

LargePayloads ==
    {Run(9, MAX_MESSAGE_SIZE),
     Run(9, BigAdd(MAX_MESSAGE_SIZE, Big(1))),
     Run(0, BigAdd(TwoTo32, Big(1)))}

Payloads == SmallPayloads \cup LargePayloads

\* buffer.len() of the buffers given to read_frame_into
Capacities == {Big(1), MAX_MESSAGE_SIZE}

\* what a peer may send that write_frame would not: headers over the
\* maximum, a header cut short, a frame cut short
PeerChunks ==
    {Bytes(<<1, 0, 0, 1>>), Bytes(<<255, 255, 255, 255>>), Bytes(<<0>>),
     Bytes(<<0, 0, 0>>), Bytes(<<0, 0, 0, 2, 65>>)}

(***************************************************************************)
(* Push: the messages of messages.rs, and the server's handling of a       *)
(* PushRequest as the protocol describes it.                               *)
(***************************************************************************)
\* Option::None of old_id, new_id and of a reference the server does not know
None == "none"

\* commits: B and C are children of A
ObjectIds == {"A", "B", "C"}

Parents == [c \in ObjectIds |-> IF c = "A" THEN {} ELSE {"A"}]

RECURSIVE Ancestors(_)
Ancestors(c) ==
    Parents[c] \cup UNION {Ancestors(q) : q \in Parents[c]}

\* a is an ancestor of b
IsAncestor(a, b) == a \in ObjectIds /\ b \in ObjectIds /\ a \in Ancestors(b)

RefNames == {"main", "dev"}

\* pub struct RefUpdate { ref_name, old_id, new_id }
RefUpdate ==
    [ref_name : RefNames, old_id : ObjectIds \cup {None},
     new_id : ObjectIds \cup {None}]

\* pub enum RefStatus, pub enum PushStatus
RefStatus == {"ok", "rejected", "stale", "conflict"}

PushStatus == {"ok", "rejected", "conflict"}

\* the status of one update against the server's references
ClassifyNoAncestry(current, u) ==
    IF u.old_id = current[u.ref_name] THEN "ok" ELSE "conflict"
Classify(current, u) ==
    LET cur == current[u.ref_name]
    IN  IF cur = None
        THEN IF u.old_id = None THEN "ok" ELSE "conflict"
        ELSE IF u.old_id = cur THEN "ok"
        ELSE IF IsAncestor(u.old_id, cur) THEN "stale"
        ELSE "conflict"

\* pub struct RefResult { ref_name, status, message }, one per update, in
\* the order of the request
RefResults(current, updates) ==
    [i \in 1..Len(updates) |->
        [ref_name |-> updates[i].ref_name,
         status |-> Classify(current, updates[i])]]

\* the overall status: the worst of the per-reference statuses
OverallStatusFirst(results) ==
    IF results = <<>> \/ results[1].status = "ok" THEN "ok"
    ELSE IF results[1].status = "conflict" THEN "conflict"
    ELSE "rejected"
OverallStatus(results) ==
    IF \E i \in 1..Len(results) : results[i].status = "conflict"
    THEN "conflict"
    ELSE IF \E i \in 1..Len(results) : results[i].status \in {"rejected", "stale"}
    THEN "rejected"
    ELSE "ok"

\* the references after the updates are applied in order (new_id absent:
\* the reference is deleted)
RECURSIVE ApplyUpdates(_, _)
ApplyUpdates(current, updates) ==
    IF updates = <<>> THEN current
    ELSE ApplyUpdates([current EXCEPT ![updates[1].ref_name] = updates[1].new_id],
                      Tail(updates))

\* the push being handled: the updates taken from the request so far,
\* the references when it began, the results, and where the handler is
NoPush ==
    [phase |-> "idle", updates |-> <<>>, before |-> [r \in RefNames |-> None],
     status |-> "none", ref_results |-> <<>>, applied |-> FALSE]

\* a PushRequest arrives
BeginPush ==
    /\ push.phase \in {"idle", "done"}
    /\ push' = [NoPush EXCEPT !.phase = "evaluating", !.before = refs]
    /\ UNCHANGED <<refs, codecVars, state, auxVars>>

\* the next update of the request is classified, against the references
\* as they were when the push began
EvaluateUpdate ==
    /\ push.phase = "evaluating"
    /\ Len(push.updates) < MaxUpdates
    /\ \E u \in RefUpdate :
           push' = [push EXCEPT
                       !.updates = Append(@, u),
                       !.ref_results = RefResults(push.before, Append(push.updates, u))]
    /\ UNCHANGED <<refs, codecVars, state, auxVars>>

\* the request is exhausted: the overall status is set, and the updates
\* are applied, all of them or none
FinishPush ==
    LET overall == OverallStatus(push.ref_results)
    IN  /\ push.phase = "evaluating"
        /\ refs' = IF overall = "ok" THEN ApplyUpdates(refs, push.updates) ELSE refs
        /\ push' = [push EXCEPT !.phase = "done", !.status = overall,
                                !.applied = (overall = "ok")]
        /\ UNCHANGED <<codecVars, state, auxVars>>

(***************************************************************************)
(* The handshake (protocol 4.4, step 1).  The client sends a HelloRequest  *)
(* with the capabilities it supports; the server, which has its own list,  *)
(* computes the negotiated capability set and answers with a HelloResponse *)
(* whose capabilities field is the server's full list.                     *)
(***************************************************************************)
PROTOCOL_VERSION == 1

\* pub enum Capability
Capability == {"Operations", "ThinPack", "Resumable"}

Range(s) == {s[i] : i \in 1..Len(s)}

\* Vec<Capability>: any order, repetitions allowed
CapabilityLists == UNION {[1..n -> Capability] : n \in 0..MaxCaps}

\* the versions a client may announce
Versions == {PROTOCOL_VERSION, PROTOCOL_VERSION + 1}

HelloRequest(v, caps, heads) ==
    [protocol_version |-> v, capabilities |-> caps, client_op_heads |-> heads]

HelloResponse(caps, heads, ancestor) ==
    [protocol_version |-> PROTOCOL_VERSION, capabilities |-> caps,
     server_op_heads |-> heads, common_ancestor |-> ancestor]

\* the negotiated capability set: the server walks its own list and keeps
\* the entries the client's list holds as well
NegotiateEcho(client, server) == Range(server)
Negotiate(client, server) ==
    {server[j] : j \in {i \in 1..Len(server) :
                            \E k \in 1..Len(client) : client[k] = server[i]}}

NoHello ==
    [phase |-> "idle", request |-> <<>>, server |-> <<>>, response |-> <<>>,
     negotiated |-> {}]

\* the client opens a session: it sends its HelloRequest (both sides on
\* fresh repositories: no operation heads)
SendHello ==
    /\ hello.phase \in {"idle", "negotiated", "failed"}
    /\ \E v \in Versions, c \in CapabilityLists :
           hello' = [NoHello EXCEPT !.phase = "requested",
                                    !.request = <<HelloRequest(v, c, <<>>)>>]
    /\ UNCHANGED exceptHello

\* the server, supporting the list s, answers: a version other than its own
\* ends the session, otherwise the capabilities are negotiated
ReplyHello ==
    /\ hello.phase = "requested"
    /\ \E s \in CapabilityLists :
           LET req == hello.request[1]
           IN  hello' =
                   IF req.protocol_version # PROTOCOL_VERSION
                   THEN [hello EXCEPT !.phase = "failed", !.server = s]
                   ELSE [hello EXCEPT
                            !.phase = "negotiated", !.server = s,
                            !.response = <<HelloResponse(s, <<>>, <<>>)>>,
                            !.negotiated = Negotiate(req.capabilities, s)]
    /\ UNCHANGED exceptHello

(***************************************************************************)
(* Two sessions pushing at the same time (protocol 5).  Each handles one   *)
(* PushRequest carrying one update: it takes the lock of the update's      *)
(* reference, reads the reference and classifies the update, applies it if *)
(* it is ok and releases the lock.  The references are shared.             *)
(*   race.base   the references when both sessions were last idle          *)
(*   race.first  the session that classified first since then              *)
(*   race.overlap  a session classified while the other had a request      *)
(*               pending or was between its check and its apply            *)
(***************************************************************************)
Sessions == {"s1", "s2"}

NoSession == [pc |-> "idle", update |-> <<>>, seen |-> <<>>, status |-> "none"]

NoRace ==
    [session |-> [s \in Sessions |-> NoSession],
     lock |-> [r \in RefNames |-> "free"],
     base |-> [r \in RefNames |-> None],
     first |-> "none", overlap |-> FALSE]

\* a session may enter the check-then-apply sequence of reference r
CanLockAlways(r) == TRUE
CanLock(r) == race.lock[r] = "free"

\* a PushRequest arrives on session s
ReceivePush(s) ==
    /\ race.session[s].pc = "idle"
    /\ \E u \in RefUpdate :
           race' = [race EXCEPT !.session[s] =
                        [NoSession EXCEPT !.pc = "waiting", !.update = <<u>>]]
    /\ UNCHANGED <<refs, exceptRace>>

\* session s takes the lock, reads the reference and classifies its update
CheckUpdate(s) ==
    LET u == race.session[s].update[1]
    IN  /\ race.session[s].pc = "waiting"
        /\ CanLock(u.ref_name)
        /\ race' = [race EXCEPT
                       !.session[s].pc = "checked",
                       !.session[s].seen = <<refs[u.ref_name]>>,
                       !.session[s].status = Classify(refs, u),
                       !.lock[u.ref_name] = s,
                       !.first = IF @ = "none" THEN s ELSE @,
                       !.overlap = @ \/ \E t \in Sessions \ {s} :
                                       race.session[t].pc \in {"waiting", "checked"}]
        /\ UNCHANGED <<refs, exceptRace>>

\* session s applies its update if it was found ok, and releases the lock
ApplyUpdate(s) ==
    LET u == race.session[s].update[1]
    IN  /\ race.session[s].pc = "checked"
        /\ refs' = IF race.session[s].status = "ok"
                   THEN ApplyUpdates(refs, <<u>>) ELSE refs
        /\ race' = [race EXCEPT !.session[s].pc = "done",
                                !.lock[u.ref_name] = "free"]
        /\ UNCHANGED exceptRace

\* both results were sent: the sessions are idle again
NextRequests ==
    /\ \A s \in Sessions : race.session[s].pc = "done"
    /\ race' = [NoRace EXCEPT !.base = refs]
    /\ UNCHANGED <<refs, exceptRace>>

(***************************************************************************)
(* Object identifiers (forjj-storage/src/object_id.rs): HASH_LEN bytes,    *)
(* rendered as and parsed from hexadecimal text.  A text is a sequence of  *)
(* characters; its length, as str::len gives it, is its number of UTF-8    *)
(* bytes.                                                                  *)
(***************************************************************************)
HASH_LEN == 32

HexDigitsLower ==
    <<"0", "1", "2", "3", "4", "5", "6", "7", "8", "9",
      "a", "b", "c", "d", "e", "f">>

HexDigitsUpper ==
    <<"0", "1", "2", "3", "4", "5", "6", "7", "8", "9",
      "A", "B", "C", "D", "E", "F">>

\* characters whose UTF-8 encoding takes two bytes
TwoByteChars == {"U+00E9"}

Utf8Len(c) == IF c \in TwoByteChars THEN 2 ELSE 1

\* str::len: the number of bytes of the text
str_len(text) ==
    Len(text) + Cardinality({i \in 1..Len(text) : Utf8Len(text[i]) = 2})

\* hex::encode: two digits per byte, high nibble first
hex_encode_upper(bytes) ==
    [i \in 1..(2 * Len(bytes)) |->
        LET b == bytes[(i + 1) \div 2]
        IN  IF i % 2 = 1 THEN HexDigitsUpper[(b \div 16) + 1]
            ELSE HexDigitsUpper[(b % 16) + 1]]
hex_encode(bytes) ==
    [i \in 1..(2 * Len(bytes)) |->
        LET b == bytes[(i + 1) \div 2]
        IN  IF i % 2 = 1 THEN HexDigitsLower[(b \div 16) + 1]
            ELSE HexDigitsLower[(b % 16) + 1]]

\* the value of a digit, of either case: <<v>>, or <<>> for any other
\* character
hex_val(c) ==
    IF \E v \in 1..16 : HexDigitsLower[v] = c
    THEN <<(CHOOSE v \in 1..16 : HexDigitsLower[v] = c) - 1>>
    ELSE IF \E v \in 1..16 : HexDigitsUpper[v] = c
    THEN <<(CHOOSE v \in 1..16 : HexDigitsUpper[v] = c) - 1>>
    ELSE <<>>

\* hex::decode_to_slice(text, &mut [u8; n])
hex_decode_to_slice(text, n) ==
    IF str_len(text) % 2 # 0
    THEN [err |-> "OddLength", bytes |-> <<>>]
    ELSE IF str_len(text) \div 2 # n
    THEN [err |-> "InvalidStringLength", bytes |-> <<>>]
    ELSE IF \E i \in 1..Len(text) : hex_val(text[i]) = <<>>
    THEN [err |-> "InvalidHexCharacter", bytes |-> <<>>]
    ELSE [err |-> "none",
          bytes |-> [i \in 1..n |->
                        hex_val(text[2 * i - 1])[1] * 16 + hex_val(text[2 * i])[1]]]

\* ObjectId::to_hex
to_hex(id) == hex_encode(id)

\* ObjectId::from_hex
from_hex_unchecked(text) ==
    LET d == hex_decode_to_slice(text, HASH_LEN)
    IN  IF d.err # "none"
        THEN [res |-> "InvalidHexCharacter", expected |-> <<>>, actual |-> <<>>,
              id |-> <<>>]
        ELSE [res |-> "Ok", expected |-> <<>>, actual |-> <<>>, id |-> <<d.bytes>>]
from_hex(text) ==
    IF str_len(text) # HASH_LEN * 2
    THEN [res |-> "InvalidHexLength", expected |-> <<HASH_LEN * 2>>,
          actual |-> <<str_len(text)>>, id |-> <<>>]
    ELSE LET d == hex_decode_to_slice(text, HASH_LEN)
         IN  IF d.err # "none"
             THEN [res |-> "InvalidHexCharacter", expected |-> <<>>,
                   actual |-> <<>>, id |-> <<>>]
             ELSE [res |-> "Ok", expected |-> <<>>, actual |-> <<>>,
                   id |-> <<d.bytes>>]

\* the identifiers tried: k bytes b1, then bytes b2
ByteValues == {0, 9, 10, 16, 171, 255}

ObjectIdBytes ==
    {[i \in 1..HASH_LEN |-> IF i <= k THEN b1 ELSE b2] :
        b1 \in ByteValues, b2 \in ByteValues, k \in {0, 1, HASH_LEN - 1}}

\* the texts tried: n characters, k of them c1 and then c2
TextChars == {"0", "9", "a", "f", "A", "F", "g", " ", "U+00E9"}

TextLengths == {0, 4, HASH_LEN * 2 - 1, HASH_LEN * 2, HASH_LEN * 2 + 1}

Texts ==
    {[i \in 1..n |-> IF i <= k THEN c1 ELSE c2] :
        c1 \in TextChars, c2 \in TextChars, n \in TextLengths,
        k \in {0, 1, HASH_LEN * 2 - 1}}

\*   oid.id        the identifier held, <<id>>, if any
\*   oid.text      the text rendered or given
\*   oid.rendered  <<id>> when text is to_hex(id)
\*   oid.parsed    the result of the last from_hex
NoObjectId ==
    [op |-> "none", id |-> <<>>, text |-> <<>>, rendered |-> <<>>,
     parsed |-> [res |-> "none", expected |-> <<>>, actual |-> <<>>, id |-> <<>>]]

\* ObjectId::from_bytes(bytes)
FromBytes ==
    /\ \E b \in ObjectIdBytes :
           oid' = [NoObjectId EXCEPT !.op = "from_bytes", !.id = <<b>>]
    /\ UNCHANGED exceptOid

\* id.to_hex()
ToHex ==
    /\ oid.op = "from_bytes"
    /\ oid' = [oid EXCEPT !.op = "to_hex", !.text = to_hex(oid.id[1]),
                          !.rendered = oid.id]
    /\ UNCHANGED exceptOid

\* ObjectId::from_hex(&hex) on the text just rendered
FromHexRendered ==
    /\ oid.op = "to_hex"
    /\ LET r == from_hex(oid.text)
       IN  oid' = [oid EXCEPT !.op = "from_hex", !.parsed = r, !.id = r.id]
    /\ UNCHANGED exceptOid

\* ObjectId::from_hex(text) on a text from elsewhere
FromHex ==
    /\ \E t \in Texts :
           LET r == from_hex(t)
           IN  oid' = [NoObjectId EXCEPT !.op = "from_hex", !.text = t,
                                         !.parsed = r, !.id = r.id]
    /\ UNCHANGED exceptOid

(***************************************************************************)
(* Serialization of a HelloRequest (forjj-protocol/src/messages.rs, with   *)
(* serde's derived Serialize / Deserialize and serde_json).  A JSON object *)
(* is the sequence of its members [key, value], a JSON string the sequence *)
(* of its characters, a JSON array a sequence.                             *)
(***************************************************************************)
Uppercase ==
    <<"A", "B", "C", "D", "E", "F", "G", "H", "I", "J", "K", "L", "M",
      "N", "O", "P", "Q", "R", "S", "T", "U", "V", "W", "X", "Y", "Z">>

Lowercase ==
    <<"a", "b", "c", "d", "e", "f", "g", "h", "i", "j", "k", "l", "m",
      "n", "o", "p", "q", "r", "s", "t", "u", "v", "w", "x", "y", "z">>

IsUpper(ch) == \E i \in 1..26 : Uppercase[i] = ch

ToLower(ch) ==
    IF IsUpper(ch) THEN Lowercase[CHOOSE i \in 1..26 : Uppercase[i] = ch] ELSE ch

\* the identifiers of the variants of Capability
VariantIdent ==
    [c \in Capability |->
        IF c = "Operations"
        THEN <<"O", "p", "e", "r", "a", "t", "i", "o", "n", "s">>
        ELSE IF c = "ThinPack"
        THEN <<"T", "h", "i", "n", "P", "a", "c", "k">>
        ELSE <<"R", "e", "s", "u", "m", "a", "b", "l", "e">>]

\* #[serde(rename_all = "snake_case")] on a variant identifier: an
\* underscore before every capital but the first, all in lowercase
rename_none(ident) == ident
snake_case(ident) ==
    LET F[i \in 0..Len(ident)] ==
            IF i = 0 THEN <<>>
            ELSE F[i - 1]
                 \o (IF IsUpper(ident[i]) /\ i > 1 THEN <<"_">> ELSE <<>>)
                 \o <<ToLower(ident[i])>>
    IN  F[Len(ident)]

\* Serialize for Capability: the renamed variant, as a string
serialize_capability(c) == snake_case(VariantIdent[c])

\* Deserialize for Capability: <<c>> for the name of a variant, else <<>>
\* (unknown variant)
deserialize_capability(name) ==
    LET m == {c \in Capability : snake_case(VariantIdent[c]) = name}
    IN  IF m = {} THEN <<>> ELSE <<CHOOSE c \in m : TRUE>>

Member(k, v) == [key |-> k, value |-> v]

\* serde_json::to_string(&request): the fields in declaration order; an
\* ObjectId is the array of its bytes
to_json(m) ==
    <<Member("protocol_version", m.protocol_version),
      Member("capabilities",
             [i \in 1..Len(m.capabilities) |->
                 serialize_capability(m.capabilities[i])]),
      Member("client_op_heads", m.client_op_heads)>>

Members(j, k) == {i \in 1..Len(j) : j[i].key = k}

FieldOf(j, k) == j[CHOOSE i \in Members(j, k) : TRUE].value

HelloFields == {"protocol_version", "capabilities", "client_op_heads"}

\* serde_json::from_str::<HelloRequest>(&json): members in any order,
\* unknown members skipped
from_json(j) ==
    IF \E k \in HelloFields : Cardinality(Members(j, k)) > 1
    THEN [res |-> "duplicate field", message |-> <<>>]
    ELSE IF \E k \in HelloFields : Members(j, k) = {}
    THEN [res |-> "missing field", message |-> <<>>]
    ELSE LET names == FieldOf(j, "capabilities")
             heads == FieldOf(j, "client_op_heads")
         IN  IF \E i \in 1..Len(names) : deserialize_capability(names[i]) = <<>>
             THEN [res |-> "unknown variant", message |-> <<>>]
             ELSE IF \E i \in 1..Len(heads) : Len(heads[i]) # HASH_LEN
             THEN [res |-> "invalid length", message |-> <<>>]
             ELSE [res |-> "Ok",
                   message |->
                       <<HelloRequest(
                           FieldOf(j, "protocol_version"),
                           [i \in 1..Len(names) |-> deserialize_capability(names[i])[1]],
                           heads)>>]

\* the requests tried
HelloRequests ==
    {HelloRequest(v, c, h) :
        v \in {0, PROTOCOL_VERSION},
        c \in CapabilityLists,
        h \in {<<>>, <<[i \in 1..HASH_LEN |-> 171]>>}}

\* texts of another origin: a variant under its Rust identifier, a member
\* missing, members reordered with one unknown, a member twice
ForeignJson ==
    {<<Member("protocol_version", 1),
       Member("capabilities", <<VariantIdent["ThinPack"]>>),
       Member("client_op_heads", <<>>)>>,
     <<Member("protocol_version", 1), Member("client_op_heads", <<>>)>>,
     <<Member("client_op_heads", <<>>), Member("extension", 0),
       Member("capabilities", <<snake_case(VariantIdent["Resumable"])>>),
       Member("protocol_version", 1)>>,
     <<Member("protocol_version", 1), Member("protocol_version", 2),
       Member("capabilities", <<>>), Member("client_op_heads", <<>>)>>}

NoWire ==
    [op |-> "none", message |-> <<>>, json |-> <<>>,
     result |-> [res |-> "none", message |-> <<>>]]

\* let json = serde_json::to_string(&request)
SerializeHello ==
    /\ wire.op # "to_string"
    /\ \E m \in HelloRequests :
           wire' = [NoWire EXCEPT !.op = "to_string", !.message = <<m>>,
                                  !.json = <<to_json(m)>>]
    /\ UNCHANGED exceptWire

\* let parsed: HelloRequest = serde_json::from_str(&json)
DeserializeHello ==
    /\ wire.op = "to_string"
    /\ wire' = [wire EXCEPT !.op = "from_str", !.result = from_json(wire.json[1])]
    /\ UNCHANGED exceptWire

\* serde_json::from_str on a text the peer produced
DeserializeForeign ==
    /\ \E j \in ForeignJson :
           wire' = [NoWire EXCEPT !.op = "from_str", !.json = <<j>>,
                                  !.result = from_json(j)]
    /\ UNCHANGED exceptWire

(***************************************************************************)
(* Repositories on disk (forjj-storage/src/repository.rs).  A path is the  *)
(* sequence of its components below repos_root; fs is the set of the       *)
(* paths that exist.  The only file the manager reads is the store type    *)
(* file, which only Workspace::init_simple writes.                         *)
(*   repo   the last call of create_repo or delete_repo, with the file     *)
(*          system before it (pre)                                         *)
(*   live   for each owner and name, whether the last call on it that      *)
(*          returned Ok was create_repo or delete_repo                     *)
(***************************************************************************)
RepoOwners == {"alice", "bob"}

\* names: "x" and "x/y" (PathBuf::join takes any relative path)
RepoNames == {<<"x">>, <<"x", "y">>}

RepoKeys == RepoOwners \X RepoNames

\* self.config.repos_root.join(owner).join(name)
repo_path(owner, name) == <<owner>> \o name

IsPrefix(p, q) == Len(p) <= Len(q) /\ SubSeq(q, 1, Len(p)) = p

\* what init_simple puts below the workspace root
JjTree ==
    {<<".jj">>, <<".jj", "repo">>, <<".jj", "repo", "store">>,
     <<".jj", "repo", "store", "type">>}

\* the content of a store type file: the name of the simple backend
StoreTypeSimple == <<"S", "i", "m", "p", "l", "e">>

\* std::fs::create_dir_all(path)
create_dir_all(f, path) == f \cup {SubSeq(path, 1, k) : k \in 1..Len(path)}

\* Workspace::init_simple(settings, path)
init_simple(f, path) == f \cup {path \o t : t \in JjTree}

\* std::fs::remove_dir_all(path)
remove_dir_all(f, path) == {q \in f : ~IsPrefix(path, q)}

\* RepositoryManager::repo_exists
repo_exists(f, owner, name) == Append(repo_path(owner, name), ".jj") \in f

\* RepositoryManager::detect_backend_type
detect_backend_type(f, path) ==
    IF path \o <<".jj", "repo", "store", "type">> \in f
    THEN LET backend == [i \in 1..Len(StoreTypeSimple) |-> ToLower(StoreTypeSimple[i])]
         IN  IF backend = <<"s", "i", "m", "p", "l", "e">> THEN "Native" ELSE "Git"
    ELSE "Git"

RepoResult(res, backend, f) == [res |-> res, backend |-> backend, fs |-> f]

\* RepositoryManager::create_repo; fault names the step that fails
create_repo(f, owner, name, fault) ==
    LET path == repo_path(owner, name)
    IN  IF path \in f
        THEN RepoResult("AlreadyExists", "none", f)
        ELSE IF fault = "create_dir_all"
        THEN RepoResult("CreateDirFailed", "none", f)
        ELSE IF fault = "init_simple"
        THEN RepoResult("InitFailed", "none", create_dir_all(f, path))
        ELSE RepoResult("Ok", "Native", init_simple(create_dir_all(f, path), path))

\* RepositoryManager::open_repo
open_repo(f, owner, name) ==
    LET path == repo_path(owner, name)
    IN  IF Append(path, ".jj") \notin f
        THEN RepoResult("DoesNotExist", "none", f)
        ELSE IF \E t \in JjTree : path \o t \notin f
        THEN RepoResult("LoadFailed", "none", f)
        ELSE RepoResult("Ok", detect_backend_type(f, path), f)

\* RepositoryManager::delete_repo
delete_repo(f, owner, name, fault) ==
    LET path == repo_path(owner, name)
    IN  IF path \notin f
        THEN RepoResult("DoesNotExist", "none", f)
        ELSE IF fault = "remove_dir_all"
        THEN RepoResult("RemoveFailed", "none", f)
        ELSE RepoResult("Ok", "none", remove_dir_all(f, path))

\* RepositoryManager::list_repos: the entries of the owner's directory
\* that hold a .jj, each once
list_repos(f, owner) ==
    IF <<owner>> \notin f THEN {}
    ELSE {[name |-> <<e[2]>>, owner |-> owner,
           backend_type |-> detect_backend_type(f, e)] :
             e \in {q \in f : Len(q) = 2 /\ q[1] = owner /\ Append(q, ".jj") \in f}}

NoRepoCall ==
    [op |-> "none", owner |-> "none", name |-> <<>>, fault |-> "none",
     res |-> "none", backend |-> "none", pre |-> {}]

RepoCall(op, owner, name, fault, r) ==
    [op |-> op, owner |-> owner, name |-> name, fault |-> fault,
     res |-> r.res, backend |-> r.backend, pre |-> fs]

\* manager.create_repo(owner, name)
CreateRepo ==
    /\ \E o \in RepoOwners, n \in RepoNames,
          fault \in {"none", "create_dir_all", "init_simple"} :
           LET r == create_repo(fs, o, n, fault)
           IN  /\ fs' = r.fs
               /\ repo' = RepoCall("create_repo", o, n, fault, r)
               /\ live' = IF r.res = "Ok"
                          THEN [live EXCEPT ![<<o, n>>] = "created"] ELSE live
    /\ UNCHANGED exceptRepo

\* manager.delete_repo(owner, name)
DeleteRepo ==
    /\ \E o \in RepoOwners, n \in RepoNames, fault \in {"none", "remove_dir_all"} :
           LET r == delete_repo(fs, o, n, fault)
           IN  /\ fs' = r.fs
               /\ repo' = RepoCall("delete_repo", o, n, fault, r)
               /\ live' = IF r.res = "Ok"
                          THEN [live EXCEPT ![<<o, n>>] = "deleted"] ELSE live
    /\ UNCHANGED exceptRepo

(***************************************************************************)
(* The codec over an in-memory stream (a Vec<u8> written, a Cursor read:   *)
(* the transport does not fail).                                           *)
(***************************************************************************)
Init ==
    /\ stream = <<>>
    /\ inflight = <<>>
    /\ clean = TRUE
    /\ pieces = 0
    /\ drained = 0
    /\ last = NoCall
    /\ state = "Disconnected"
    /\ refs = [r \in RefNames |-> None]
    /\ push = NoPush
    /\ hello = NoHello
    /\ race = NoRace
    /\ oid = NoObjectId
    /\ wire = NoWire
    /\ fs = {}
    /\ repo = NoRepoCall
    /\ live = [k \in RepoKeys |-> "never"]

WriteFrame ==
    /\ \E p \in Payloads : WriteStep(p, "none", Zero)
    /\ UNCHANGED <<state, pushVars, auxVars>>

ReadFrame ==
    /\ ReadStep("read_frame", <<>>, "none", Zero)
    /\ UNCHANGED <<state, pushVars, auxVars>>

ReadFrameInto ==
    /\ \E c \in Capacities : ReadStep("read_frame_into", <<c>>, "none", Zero)
    /\ UNCHANGED <<state, pushVars, auxVars>>

PeerWrites ==
    /\ \E raw \in PeerChunks : PeerStep(raw)
    /\ UNCHANGED <<state, pushVars, auxVars>>

Next == WriteFrame \/ ReadFrame \/ ReadFrameInto \/ PeerWrites

Spec == Init /\ [][Next]_vars

(***************************************************************************)
(* A session: the caller of the codec, as the protocol describes it.  It   *)
(* moves Disconnected -> Handshaking -> Negotiated -> Fetching or Pushing  *)
(* -> Closed, sends and receives frames while it is open, and is closed    *)
(* by a framing error or by its explicit end.                              *)
(***************************************************************************)
SessionOpen == state \in {"Handshaking", "Negotiated", "Fetching", "Pushing"}

\* the state of the session after a frame operation that returned res
SessionAfterLenient(res) ==
    IF res \in {"Ok", "MessageTooLarge"} THEN state ELSE "Closed"
SessionAfter(res) == IF res = "Ok" THEN state ELSE "Closed"

SessionPayloads == {Bytes(<<7>>), Run(9, BigAdd(MAX_MESSAGE_SIZE, Big(1)))}

SessionConnect ==
    /\ state = "Disconnected"
    /\ state' = "Handshaking"
    /\ UNCHANGED <<codecVars, pushVars, auxVars>>

SessionAdvance ==
    /\ \/ state = "Handshaking" /\ state' = "Negotiated"
       \/ state = "Negotiated" /\ state' \in {"Fetching", "Pushing"}
    /\ UNCHANGED <<codecVars, pushVars, auxVars>>

SessionSend ==
    /\ SessionOpen
    /\ \E p \in SessionPayloads : WriteStep(p, "none", Zero)
    /\ state' = SessionAfter(last'.res)
    /\ UNCHANGED <<pushVars, auxVars>>

SessionReceive ==
    /\ SessionOpen
    /\ ReadStep("read_frame", <<>>, "none", Zero)
    /\ state' = SessionAfter(last'.res)
    /\ UNCHANGED <<pushVars, auxVars>>

SessionPeerWrites ==
    /\ SessionOpen
    /\ \E raw \in PeerChunks : PeerStep(raw)
    /\ UNCHANGED <<state, pushVars, auxVars>>

SessionEnd ==
    /\ SessionOpen
    /\ state' = "Closed"
    /\ UNCHANGED <<codecVars, pushVars, auxVars>>

NextSession ==
    \/ SessionConnect
    \/ SessionAdvance
    \/ SessionSend
    \/ SessionReceive
    \/ SessionPeerWrites
    \/ SessionEnd

SessionSpec == Init /\ [][NextSession]_vars

\* the server handling push requests
NextPush == BeginPush \/ EvaluateUpdate \/ FinishPush

PushSpec == Init /\ [][NextPush]_vars

(***************************************************************************)
(* The codec over a transport that may fail: an I/O error at the header,   *)
(* at the payload or at the flush, after cut bytes.                        *)
(***************************************************************************)
IoPayloads == {<<>>, Bytes(<<0, 1>>), Run(9, BigAdd(MAX_MESSAGE_SIZE, Big(1)))}

WriteFaults == {"none", "header", "payload", "flush"}

ReadFaults == {"none", "header", "payload"}

Cuts(fault) == IF fault \in {"none", "flush"} THEN {Zero} ELSE {Zero, Big(1)}

IoCapacities == {Big(1), Big(2)}

IoPeerChunks == {Bytes(<<0, 0, 0>>), Bytes(<<0, 0, 0, 2, 65>>)}

WriteFrameIo ==
    /\ \E p \in IoPayloads, f \in WriteFaults :
           \E c \in Cuts(f) : WriteStep(p, f, c)
    /\ UNCHANGED <<state, pushVars, auxVars>>

ReadFrameIo ==
    /\ \E f \in ReadFaults :
           \E c \in Cuts(f) : ReadStep("read_frame", <<>>, f, c)
    /\ UNCHANGED <<state, pushVars, auxVars>>

ReadFrameIntoIo ==
    /\ \E k \in IoCapacities, f \in ReadFaults :
           \E c \in Cuts(f) : ReadStep("read_frame_into", <<k>>, f, c)
    /\ UNCHANGED <<state, pushVars, auxVars>>

PeerWritesIo ==
    /\ \E raw \in IoPeerChunks : PeerStep(raw)
    /\ UNCHANGED <<state, pushVars, auxVars>>

NextIo == WriteFrameIo \/ ReadFrameIo \/ ReadFrameIntoIo \/ PeerWritesIo

IoSpec == Init /\ [][NextIo]_vars

\* the handshake of a session
NextHello == SendHello \/ ReplyHello

HelloSpec == Init /\ [][NextHello]_vars

\* two sessions pushing to the same server
NextRace ==
    \/ \E s \in Sessions : ReceivePush(s)
    \/ \E s \in Sessions : CheckUpdate(s)
    \/ \E s \in Sessions : ApplyUpdate(s)
    \/ NextRequests

RaceSpec == Init /\ [][NextRace]_vars

\* object identifiers and their hexadecimal form
NextHex == FromBytes \/ ToHex \/ FromHexRendered \/ FromHex

HexSpec == Init /\ [][NextHex]_vars

\* serialization of the handshake request
NextSerde == SerializeHello \/ DeserializeHello \/ DeserializeForeign

SerdeSpec == Init /\ [][NextSerde]_vars

\* the repository manager
NextRepo == CreateRepo \/ DeleteRepo

RepoSpec == Init /\ [][NextRepo]_vars

(***************************************************************************)
(* Properties of the codec.                                                *)
(***************************************************************************)
IsRead == last.op \in {"read_frame", "read_frame_into"}

\* the bytes the last read took from the stream
Consumed == BigSub(BLen(last.pre), BLen(stream))

\* the length the first four bytes of s declare
Declared(s) == from_be_bytes(<<ByteAt(s, 1), ByteAt(s, 2), ByteAt(s, 3), ByteAt(s, 4)>>)

\* C1: frame round trip.  A read over exactly the bytes that write_frame(p)
\* wrote when it returned Ok, len(p) <= MAX_MESSAGE_SIZE, returns Ok(p);
\* read_frame_into with a buffer of at least len(p) bytes returns
\* Ok(len(p)) with p in the buffer.
FrameRoundTrip ==
    (/\ IsRead
     /\ last.fault = "none"
     /\ last.expect # <<>>
     /\ last.pre = last.expect[1].bytes
     /\ BigLe(BLen(last.expect[1].data), MAX_MESSAGE_SIZE)
     /\ last.op = "read_frame_into" => BigLe(BLen(last.expect[1].data), last.cap[1]))
    => /\ last.res = "Ok"
       /\ last.data = last.expect[1].data
       /\ last.op = "read_frame_into" => last.n = <<BLen(last.expect[1].data)>>

FrameRoundTripWitness ==
    /\ IsRead
    /\ last.res = "Ok"
    /\ last.expect # <<>>
    /\ last.pre = last.expect[1].bytes
    /\ last.data = last.expect[1].data
    /\ BLen(last.data) = MAX_MESSAGE_SIZE

\* C2: send size bound.  write_frame(p) with len(p) > MAX_MESSAGE_SIZE
\* returns MessageTooLarge and writes nothing.
SendSizeBound ==
    (last.op = "write_frame" /\ BigLt(MAX_MESSAGE_SIZE, BLen(last.arg)))
    => (last.res = "MessageTooLarge" /\ stream = last.pre)

\* C3: oversized header on receive.  When the four bytes read declare more
\* than MAX_MESSAGE_SIZE, the read returns MessageTooLarge with that size,
\* allocates nothing, returns no payload and leaves the stream exactly
\* four bytes further.
OversizedHeaderRejected ==
    (/\ IsRead
     /\ last.fault # "header"
     /\ BigLe(Big(4), BLen(last.pre))
     /\ BigLt(MAX_MESSAGE_SIZE, Declared(last.pre)))
    => /\ last.res = "MessageTooLarge"
       /\ last.size = <<Declared(last.pre)>>
       /\ last.alloc = <<>>
       /\ last.data = <<>>
       /\ last.n = <<>>
       /\ stream = BDrop(last.pre, Big(4))
       /\ Consumed = Big(4)

OversizedHeaderWitness ==
    /\ IsRead
    /\ last.res = "MessageTooLarge"
    /\ BigLt(Big(4), BLen(last.pre))
    /\ stream # <<>>

\* C4: end of stream before the header.  A read of a stream that holds
\* fewer than four bytes fails with UnexpectedEof (not Io, no payload); a
\* transport failure while the header is read is reported as Io.
EofBeforeHeader ==
    IsRead =>
        /\ (last.fault # "header" /\ BigLt(BLen(last.pre), Big(4)))
               => (last.res = "UnexpectedEof" /\ last.data = <<>> /\ last.n = <<>>)
        /\ last.fault = "header" => (last.res = "Io" /\ last.kind = "Other")

EofBeforeHeaderWitness ==
    /\ IsRead
    /\ last.res = "UnexpectedEof"
    /\ BLen(last.pre) = Big(3)

\* C5: send wire format.  When write_frame(p) returns Ok it has appended
\* a four-byte big-endian header whose value is len(p), then p, and has
\* flushed; the stream is 4 + len(p) bytes longer.
SendWireFormat ==
    (last.op = "write_frame" /\ last.res = "Ok")
    => /\ stream = BCat(last.pre, last.wrote)
       /\ BLen(last.wrote) = BigAdd(Big(4), BLen(last.arg))
       /\ Declared(last.wrote) = BLen(last.arg)
       /\ BDrop(last.wrote, Big(4)) = last.arg
       /\ last.flushed

\* C6: frames are not split or coalesced.  On a stream written only by
\* successful write_frame calls, each read_frame returns the oldest unread
\* payload and consumes 4 + its length; with none unread it fails with
\* UnexpectedEof.
FramesInOrder ==
    (last.op = "read_frame" /\ last.fault = "none" /\ last.wasClean)
    => IF last.expect = <<>>
       THEN last.res = "UnexpectedEof"
       ELSE /\ last.res = "Ok"
            /\ last.data = last.expect[1].data
            /\ Consumed = BigAdd(Big(4), BLen(last.expect[1].data))

\* C7: bounded-buffer receive.  When read_frame_into refuses a frame that
\* is larger than the buffer, it fails with Io and leaves the stream at a
\* frame boundary: before the refused frame or after it.
BoundedBufferBoundary ==
    (/\ last.op = "read_frame_into"
     /\ last.fault = "none"
     /\ last.wasClean
     /\ last.expect # <<>>
     /\ BigLe(BLen(last.expect[1].data), MAX_MESSAGE_SIZE)
     /\ BigLt(last.cap[1], BLen(last.expect[1].data)))
    => /\ last.res = "Io"
       /\ \/ stream = last.pre
          \/ stream = BDrop(last.pre, BLen(last.expect[1].bytes))

(***************************************************************************)
(* Properties of the push handling and of the session.                     *)
(***************************************************************************)
\* C8: per-reference classification.  The results are those of the
\* updates, one each and in their order; an update of a reference the
\* server does not know is ok only with old_id absent; an update of a
\* known reference is ok only with old_id equal to its value; any other
\* is stale when old_id is an ancestor of the value and conflict when not;
\* a reference with a stale or conflict update is left as it was.
PushClassification ==
    /\ Len(push.ref_results) = Len(push.updates)
    /\ \A i \in 1..Len(push.updates) :
        LET u == push.updates[i]
            st == push.ref_results[i].status
            cur == push.before[u.ref_name]
        IN  /\ push.ref_results[i].ref_name = u.ref_name
            /\ (cur = None /\ st = "ok") => u.old_id = None
            /\ (cur # None /\ st = "ok") => u.old_id = cur
            /\ st # "ok" =>
                   st = (IF cur # None /\ u.old_id # None
                            /\ u.old_id \in Ancestors(cur)
                         THEN "stale" ELSE "conflict")
            /\ (push.phase = "done" /\ st \in {"stale", "conflict"})
                   => refs[u.ref_name] = cur

PushClassificationWitness ==
    /\ push.phase = "done"
    /\ Len(push.updates) = 2
    /\ push.ref_results[1].status = "stale"
    /\ push.ref_results[2].status = "conflict"
    /\ push.before[push.updates[2].ref_name] # None
    /\ refs = push.before

\* the severity of a per-reference status and of an overall status
RefSeverity(st) == IF st = "ok" THEN 0 ELSE IF st = "conflict" THEN 2 ELSE 1

PushSeverity(st) == IF st = "ok" THEN 0 ELSE IF st = "conflict" THEN 2 ELSE 1

ClosedIsTerminal ==
    /\ [](last.res \in {"UnexpectedEof", "MessageTooLarge"} => state = "Closed")
    /\ [][state = "Closed" => (state' = "Closed" /\ UNCHANGED codecVars)]_vars

ClosedIsTerminalWitness ==
    /\ state = "Closed"
    /\ last.op = "read_frame"
    /\ last.res = "MessageTooLarge"
    /\ stream # <<>>

(***************************************************************************)
(* Properties of the handshake.                                            *)
(***************************************************************************)
\* the lists of the last negotiated handshake
ClientCaps == hello.request[1].capabilities
ServerCaps == hello.server

\* the intersection, whatever the order and the repetitions of either list
NegotiatedIsIntersection ==
    /\ hello.negotiated = Range(ClientCaps) \cap Range(ServerCaps)
    /\ \A c \in CapabilityLists :
           Range(c) = Range(ClientCaps) => Negotiate(c, ServerCaps) = hello.negotiated
    /\ \A s \in CapabilityLists :
           Range(s) = Range(ServerCaps) => Negotiate(ClientCaps, s) = hello.negotiated

\* C11 (as stated): capability negotiation.  The negotiated set is the
\* intersection of the two lists, the same for every ordering and
\* duplication of either, and when the two sides advertise different
\* capabilities it is the raw list of neither.
CapabilityNegotiation ==
    hello.phase = "negotiated" =>
        /\ NegotiatedIsIntersection
        /\ Range(ClientCaps) # Range(ServerCaps) =>
               /\ hello.negotiated # Range(ClientCaps)
               /\ hello.negotiated # Range(ServerCaps)

\* C11 (amended): capability negotiation.  The negotiated set is the
\* intersection of the two lists, the same for every ordering and
\* duplication of either; it is the raw list of one side exactly when the
\* other side advertises every capability of that list as well, and the
\* HelloResponse carries the server's full list.
CapabilityNegotiationAmended ==
    hello.phase = "negotiated" =>
        /\ NegotiatedIsIntersection
        /\ hello.negotiated = Range(ClientCaps)
               <=> Range(ClientCaps) \subseteq Range(ServerCaps)
        /\ hello.negotiated = Range(ServerCaps)
               <=> Range(ServerCaps) \subseteq Range(ClientCaps)
        /\ hello.response[1].capabilities = ServerCaps

CapabilityNegotiationWitness ==
    /\ hello.phase = "negotiated"
    /\ ClientCaps = <<"Operations", "ThinPack">>
    /\ ServerCaps = <<"Resumable", "ThinPack", "ThinPack">>
    /\ hello.negotiated = {"ThinPack"}

(***************************************************************************)
(* Properties of racing pushes.                                            *)
(***************************************************************************)
Raced == \A s \in Sessions : race.session[s].pc = "done"

Upd(s) == race.session[s].update[1]

Other(s) == CHOOSE t \in Sessions : t # s

\* both updates name one reference, each with the old_id it had before
SameReference ==
    /\ Upd("s1").ref_name = Upd("s2").ref_name
    /\ \A s \in Sessions : Upd(s).old_id = race.base[Upd(s).ref_name]

\* pushes to different references: each result is the one the push would
\* have had alone
DisjointIndependent ==
    Upd("s1").ref_name # Upd("s2").ref_name =>
        \A s \in Sessions :
            /\ race.session[s].status = Classify(race.base, Upd(s))
            /\ race.session[s].seen = <<race.base[Upd(s).ref_name]>>

\* C12 (as stated): no lost update.  Of two pushes to one reference, both
\* with the old_id the reference had before, exactly one is applied with
\* status ok and the other, evaluated against the first one's new value, is
\* not ok; pushes to different references have the results they would have
\* alone.
NoLostUpdate ==
    Raced =>
        /\ SameReference =>
               \E w \in Sessions :
                   /\ race.session[w].status = "ok"
                   /\ race.session[Other(w)].status # "ok"
                   /\ race.session[Other(w)].seen = <<Upd(w).new_id>>
                   /\ refs[Upd(w).ref_name] = Upd(w).new_id
        /\ DisjointIndependent

\* C12 (amended): no lost update.  The push that classifies first is ok; the
\* other is evaluated against the first one's new value, and is not ok
\* when the first changed the reference (new_id # old_id), so that the
\* reference ends with the first one's new value; when the first left the
\* value as it was, the other is ok as well and its new value is the last.
NoLostUpdateAmended ==
    Raced =>
        /\ SameReference =>
               LET w == race.first
                   l == Other(race.first)
                   r == Upd(w).ref_name
               IN  /\ race.session[w].status = "ok"
                   /\ race.session[l].seen = <<Upd(w).new_id>>
                   /\ IF Upd(w).new_id # Upd(w).old_id
                      THEN /\ race.session[l].status # "ok"
                           /\ refs[r] = Upd(w).new_id
                      ELSE /\ race.session[l].status = "ok"
                           /\ refs[r] = Upd(l).new_id
        /\ DisjointIndependent

\* both pushed main from A to a child of A, overlapping: s2 won, s1 is stale
NoLostUpdateWitness ==
    /\ Raced
    /\ race.overlap
    /\ race.base["main"] = "A"
    /\ Upd("s1") = [ref_name |-> "main", old_id |-> "A", new_id |-> "B"]
    /\ Upd("s2") = [ref_name |-> "main", old_id |-> "A", new_id |-> "C"]
    /\ race.first = "s2"
    /\ race.session["s2"].status = "ok"
    /\ race.session["s1"].status = "stale"
    /\ refs["main"] = "C"

(***************************************************************************)
(* Properties of object identifiers.                                       *)
(***************************************************************************)
LowerHexChars == {HexDigitsLower[i] : i \in 1..16}

AnyHexChars == LowerHexChars \cup {HexDigitsUpper[i] : i \in 1..16}

\* C13: hex round trip.  to_hex(id) is 64 lowercase hexadecimal characters
\* and from_hex of it is Ok with the 32 bytes of id.
HexRoundTrip ==
    /\ oid.op = "to_hex" =>
           /\ Len(oid.text) = 64
           /\ \A i \in 1..Len(oid.text) : oid.text[i] \in LowerHexChars
    /\ (oid.op = "from_hex" /\ oid.rendered # <<>>) =>
           /\ oid.parsed.res = "Ok"
           /\ oid.parsed.id = oid.rendered
           /\ Len(oid.parsed.id[1]) = 32

\* the identifier 00 ab ab ... ab went to text and back
HexRoundTripWitness ==
    /\ oid.op = "from_hex"
    /\ oid.rendered = <<[i \in 1..32 |-> IF i <= 1 THEN 0 ELSE 171]>>
    /\ oid.text[1] = "0" /\ oid.text[2] = "0"
    /\ oid.text[3] = "a" /\ oid.text[4] = "b"
    /\ oid.parsed.res = "Ok"
    /\ oid.id = oid.rendered

\* C14: malformed hex.  A text whose length (str::len, in bytes) is not 64
\* gives InvalidHexLength whatever its characters; a text of length 64 with
\* a character that is no hexadecimal digit gives InvalidHexCharacter; Ok is
\* returned only for 64 hexadecimal digits.
MalformedHexRejected ==
    oid.op = "from_hex" =>
        /\ str_len(oid.text) # 64 =>
               /\ oid.parsed.res = "InvalidHexLength"
               /\ oid.parsed.expected = <<64>>
               /\ oid.parsed.actual = <<str_len(oid.text)>>
        /\ (/\ str_len(oid.text) = 64
            /\ \E i \in 1..Len(oid.text) : oid.text[i] \notin AnyHexChars) =>
               oid.parsed.res = "InvalidHexCharacter"
        /\ oid.parsed.res = "Ok" <=>
               /\ Len(oid.text) = 64
               /\ \A i \in 1..Len(oid.text) : oid.text[i] \in AnyHexChars
        /\ oid.parsed.res # "Ok" => oid.id = <<>>

\* four characters, none of them a digit: the length is reported
MalformedHexWitness ==
    /\ oid.op = "from_hex"
    /\ oid.text = <<"g", "g", "g", "g">>
    /\ oid.parsed.res = "InvalidHexLength"

(***************************************************************************)
(* Properties of the message serialization.                                *)
(***************************************************************************)
\* the interchange names of the capabilities
StableName ==
    [c \in Capability |->
        IF c = "Operations"
        THEN <<"o", "p", "e", "r", "a", "t", "i", "o", "n", "s">>
        ELSE IF c = "ThinPack"
        THEN <<"t", "h", "i", "n", "_", "p", "a", "c", "k">>
        ELSE <<"r", "e", "s", "u", "m", "a", "b", "l", "e">>]

\* C16: message serialization round trip.  Deserializing the serialized
\* form of a HelloRequest gives the same protocol_version and the same
\* capabilities in the same order; each capability is written as its
\* stable lowercase name, and each of those names reads back as the same
\* capability.
HelloRoundTrip ==
    /\ wire.op = "to_string" =>
           LET m == wire.message[1]
               written == FieldOf(wire.json[1], "capabilities")
           IN  /\ Len(written) = Len(m.capabilities)
               /\ \A i \in 1..Len(written) :
                      /\ written[i] = StableName[m.capabilities[i]]
                      /\ deserialize_capability(StableName[m.capabilities[i]])
                             = <<m.capabilities[i]>>
    /\ (wire.op = "from_str" /\ wire.message # <<>>) =>
           /\ wire.result.res = "Ok"
           /\ wire.result.message[1].protocol_version
                  = wire.message[1].protocol_version
           /\ wire.result.message[1].capabilities = wire.message[1].capabilities

\* version 1 with thin_pack, operations and thin_pack again came back
HelloRoundTripWitness ==
    /\ wire.op = "from_str"
    /\ wire.message # <<>>
    /\ wire.message[1].protocol_version = 1
    /\ wire.message[1].capabilities = <<"ThinPack", "Operations", "ThinPack">>
    /\ FieldOf(wire.json[1], "capabilities")[1]
           = <<"t", "h", "i", "n", "_", "p", "a", "c", "k">>
    /\ wire.result.res = "Ok"
    /\ wire.result.message[1].capabilities = <<"ThinPack", "Operations", "ThinPack">>

(***************************************************************************)
(* Properties of the codec over a failing transport.                       *)
(***************************************************************************)
\* the frame of the last write_frame: header, then payload
Frame == BCat(Bytes(to_be_bytes(AsU32(BLen(last.arg)))), last.arg)

\* the transport call that failed in the last write_frame, if one did
FailedAt ==
    IF TooLarge(AsU32(BLen(last.arg))) THEN "none"
    ELSE IF last.fault = "payload" /\ last.arg = <<>> THEN "none"
    ELSE last.fault

\* C18: a send completes fully or fails.  write_frame returns Ok only when
\* the header, the payload and the flush all completed, in that order; a
\* transport failure at any of the three gives Io, never Ok, with at most a
\* prefix of the frame written, and no byte is written twice.
SendCompletesOrFails ==
    last.op = "write_frame" =>
        /\ BTake(Frame, BLen(last.wrote)) = last.wrote
        /\ last.res = "Ok" =>
               /\ FailedAt = "none"
               /\ last.wrote = Frame
               /\ last.flushed
        /\ FailedAt # "none" =>
               /\ last.res = "Io"
               /\ ~last.flushed
               /\ FailedAt = "header" => BigLt(BLen(last.wrote), Big(4))
               /\ FailedAt = "payload" =>
                      /\ BigLe(Big(4), BLen(last.wrote))
                      /\ BigLt(BLen(last.wrote), BLen(Frame))
               /\ FailedAt = "flush" => last.wrote = Frame

\* the flush failed after the whole frame of [0, 1] was written
SendCompletesOrFailsWitness ==
    /\ last.op = "write_frame"
    /\ last.arg = Bytes(<<0, 1>>)
    /\ last.fault = "flush"
    /\ last.res = "Io"
    /\ last.wrote = Bytes(<<0, 0, 0, 2, 0, 1>>)

\* the last read found a whole header declaring at most MAX_MESSAGE_SIZE
\* bytes, and then fewer bytes than declared, on a transport that did not
\* fail
Truncated ==
    /\ IsRead
    /\ last.fault = "none"
    /\ BigLe(Big(4), BLen(last.pre))
    /\ ~TooLarge(Declared(last.pre))
    /\ BigLt(BigSub(BLen(last.pre), Big(4)), Declared(last.pre))

EofOnlyInHeader ==
    (IsRead /\ last.res = "UnexpectedEof") => BigLt(BLen(last.pre), Big(4))

\* C19 (as stated): truncated payload.  Both readers then fail with Io of
\* kind UnexpectedEof and return no payload; FrameError::UnexpectedEof
\* comes only from an end of stream inside the header.
TruncatedPayload ==
    /\ Truncated =>
           /\ last.res = "Io"
           /\ last.kind = "UnexpectedEof"
           /\ last.data = <<>> /\ last.n = <<>>
    /\ EofOnlyInHeader

\* C19 (amended): truncated payload.  read_frame, and read_frame_into with
\* a buffer of at least the declared length, then fail with Io of kind
\* UnexpectedEof; read_frame_into with a shorter buffer fails with Io of
\* kind InvalidData before reading any payload byte; neither returns a
\* payload, and FrameError::UnexpectedEof comes only from an end of stream
\* inside the header.
TruncatedPayloadAmended ==
    /\ Truncated =>
           /\ last.res = "Io"
           /\ last.data = <<>> /\ last.n = <<>>
           /\ IF last.op = "read_frame_into" /\ BigLt(last.cap[1], Declared(last.pre))
              THEN /\ last.kind = "InvalidData"
                   /\ Consumed = Big(4)
              ELSE /\ last.kind = "UnexpectedEof"
                   /\ stream = <<>>
    /\ EofOnlyInHeader

\* read_frame_into with a 2-byte buffer met 00 00 00 02 41 and the end
TruncatedPayloadWitness ==
    /\ last.op = "read_frame_into"
    /\ last.cap = <<Big(2)>>
    /\ last.pre = Bytes(<<0, 0, 0, 2, 65>>)
    /\ last.res = "Io"
    /\ last.kind = "UnexpectedEof"

(***************************************************************************)
(* Properties of the repository manager.                                   *)
(***************************************************************************)
Listed(owner, name) == {i \in list_repos(fs, owner) : i.name = name}

\* C17: repository lifecycle.  Once create_repo(owner, name) has returned
\* Ok, and whatever is then done to other names, the repository exists,
\* opens with the Native backend and is listed once for its owner; once a
\* following delete_repo(owner, name) has returned Ok it does not exist,
\* does not open and is not listed.
RepositoryLifecycle ==
    \A k \in RepoKeys :
        /\ live[k] = "created" =>
               /\ repo_exists(fs, k[1], k[2])
               /\ open_repo(fs, k[1], k[2]).res = "Ok"
               /\ open_repo(fs, k[1], k[2]).backend = "Native"
               /\ Cardinality(Listed(k[1], k[2])) = 1
        /\ live[k] = "deleted" =>
               /\ ~repo_exists(fs, k[1], k[2])
               /\ open_repo(fs, k[1], k[2]).res # "Ok"
               /\ Listed(k[1], k[2]) = {}

\* C20: create_repo and repo_exists agree.  create_repo is refused as
\* already existing, changing nothing, exactly when repo_exists was true;
\* in every state a name for which repo_exists is false can be created,
\* and a name create_repo would refuse as existing can be opened.
CreateAgreesWithExists ==
    /\ repo.op = "create_repo" =>
           /\ repo.res = "AlreadyExists"
                  <=> repo_exists(repo.pre, repo.owner, repo.name)
           /\ repo.res = "AlreadyExists" => fs = repo.pre
    /\ \A k \in RepoKeys :
           /\ ~repo_exists(fs, k[1], k[2])
                  => create_repo(fs, k[1], k[2], "none").res = "Ok"
           /\ create_repo(fs, k[1], k[2], "none").res = "AlreadyExists"
                  => open_repo(fs, k[1], k[2]).res = "Ok"

====
